---- MODULE Spec2Model ----
(***************************************************************************)
(* ERA5 download drivers: download_era5_rda.py (NCAR RDA ds633.0, one      *)
(* file per variable, fetched by wget) and download_era5_cds.py (CDS, one  *)
(* GRIB per day, fetched by cdsapi).  The model is the state machine of    *)
(* one run of either script: argument handling, the batch loops, the       *)
(* transfer of one unit, the counters and the exit status.                 *)
(*                                                                         *)
(* Python values: an optional value (None or v) is the sequence <<>> or    *)
(* <<v>>; strings are TLA+ strings, f-strings are concatenations.          *)
(***************************************************************************)
EXTENDS Integers, Sequences, FiniteSets, TLC

VARIABLES
    archive,        \* "RDA" or "CDS": which script runs
    args,           \* the parsed command line (argparse namespace)
    env,            \* os.environ: RDA_EMAIL, RDA_KEY (optional strings)
    cfg,            \* ~/.cdsapirc: whether it exists and its stripped lines
    disk,           \* the output tree: path -> file content, for the files that exist
    pc,             \* position of the process
    days,           \* main's day list
    variables,      \* main's variable filter (optional list of mnemonics)
    idx,            \* number of units of the running batch loop already processed
    success_count,  \* the running batch's counters
    skip_count,
    fail_count,
    pl_stats,       \* results of the two batches (RDA)
    sl_stats,
    exit_status,    \* process exit status, once pc = "exit"
    exit_at,        \* where the process ended
    log,            \* per-unit status lines printed so far: <<path, outcome>>
    transfers,      \* network calls issued so far (wget runs, client.retrieve calls)
    last,           \* the latest download_file call: its input and result
    loc             \* the latest build_rda_url call: its input and result

vars == <<archive, args, env, cfg, disk, pc, days, variables, idx, success_count,
          skip_count, fail_count, pl_stats, sl_stats, exit_status, exit_at, log,
          transfers, last, loc>>

-----------------------------------------------------------------------------
(* Bounds of the model *)

\* days of the month given on the command line range over 1..MaxDay
MaxDay == 2
\* the network lets at most MaxFailures transfers of one RDA run fail
MaxFailures == 1

-----------------------------------------------------------------------------
(* Python helpers *)

None == <<>>
Some(v) == <<v>>

\* bool(x) of an optional integer: None and 0 are false
TruthyInt(o) == o # None /\ o[1] # 0
\* bool(x) of an optional string: None and '' are false
TruthyStr(o) == o # None /\ o[1] # ""
\* bool(x) of an optional list: None and [] are false
TruthyList(o) == o # None /\ o[1] # <<>>

\* f"{n:02d}" for n >= 0
Fmt02d(n) == IF n < 10 THEN "0" \o ToString(n) ELSE ToString(n)

\* s.zfill(2)
Zfill2(s) == IF Len(s) = 0 THEN "00" ELSE IF Len(s) = 1 THEN "0" \o s ELSE s

\* list(range(a, b + 1))
RangeList(a, b) == [i \in 1..(IF b >= a THEN b - a + 1 ELSE 0) |-> a + i - 1]

RECURSIVE Flatten(_)
Flatten(ss) == IF ss = <<>> THEN <<>> ELSE Head(ss) \o Flatten(Tail(ss))

RECURSIVE SelectSeqBy(_, _)
\* the entries of an ordered table whose mnemonic is in the list `keep`
SelectSeqBy(table, keep) ==
    IF table = <<>> THEN <<>>
    ELSE (IF \E i \in 1..Len(keep) : keep[i] = Head(table).name
          THEN <<Head(table)>> ELSE <<>>) \o SelectSeqBy(Tail(table), keep)

-----------------------------------------------------------------------------
(* download_era5_rda.py: tables *)

RDA_BASE_URL == "https://tds.gdex.ucar.edu/thredds/fileServer/files/g/d633000"

Var(n, p, l) == [name |-> n, param |-> p, level_type |-> l]

\* dicts keep insertion order: a table is the sequence of its items
PRESSURE_LEVEL_VARS ==
    << Var("Z", "129", "pl"), Var("Q", "133", "pl"), Var("T", "130", "pl"),
       Var("U", "131", "pl"), Var("V", "132", "pl") >>

SINGLE_LEVEL_VARS ==
    << Var("SP", "134", "sfc"), Var("MSL", "151", "sfc"), Var("2T", "167", "sfc"),
       Var("2D", "168", "sfc"), Var("10U", "165", "sfc"), Var("10V", "166", "sfc"),
       Var("SSTK", "34", "sfc"), Var("SKT", "235", "sfc"), Var("LSM", "172", "sfc"),
       Var("CI", "31", "sfc"), Var("SD", "141", "sfc"), Var("RSN", "33", "sfc"),
       Var("SWVL1", "39", "sfc"), Var("SWVL2", "40", "sfc"), Var("SWVL3", "41", "sfc"),
       Var("SWVL4", "42", "sfc"), Var("STL1", "139", "sfc"), Var("STL2", "170", "sfc"),
       Var("STL3", "183", "sfc"), Var("STL4", "236", "sfc") >>

\* var_map of build_rda_url: parameter code -> (short name, grid type)
var_map ==
    ( "129" :> <<"z", "sc">>  @@ "130" :> <<"t", "sc">>  @@ "131" :> <<"u", "uv">>  @@
      "132" :> <<"v", "uv">>  @@ "133" :> <<"q", "sc">>  @@ "134" :> <<"sp", "sc">> @@
      "151" :> <<"msl", "sc">> @@ "167" :> <<"2t", "sc">> @@ "168" :> <<"2d", "sc">> @@
      "165" :> <<"10u", "uv">> @@ "166" :> <<"10v", "uv">> @@ "34" :> <<"sst", "sc">> @@
      "235" :> <<"skt", "sc">> @@ "172" :> <<"lsm", "sc">> @@ "31" :> <<"ci", "sc">> @@
      "141" :> <<"sd", "sc">>  @@ "33" :> <<"rsn", "sc">>  @@ "39" :> <<"swvl1", "sc">> @@
      "40" :> <<"swvl2", "sc">> @@ "41" :> <<"swvl3", "sc">> @@ "42" :> <<"swvl4", "sc">> @@
      "139" :> <<"stl1", "sc">> @@ "170" :> <<"stl2", "sc">> @@ "183" :> <<"stl3", "sc">> @@
      "236" :> <<"stl4", "sc">> )

\* var_map.get(param, ('unknown', 'sc'))
VarMapGet(param) ==
    IF param \in DOMAIN var_map THEN var_map[param] ELSE <<"unknown", "sc">>

\* build_rda_url(year, month, day, param, level_type) -> (url, filename)
build_rda_url(year, month, day, param, level_type) ==
    LET date_str  == ToString(year) \o Fmt02d(month) \o Fmt02d(day)
        entry     == VarMapGet(param)
        var_short == entry[1]
        grid_type == entry[2]
        filename  == "e5.oper.an." \o level_type \o ".128_" \o param \o "_" \o var_short
                     \o ".ll025" \o grid_type \o "." \o date_str \o "00_" \o date_str
                     \o "23.nc"
        url       == RDA_BASE_URL \o "/e5.oper.an." \o level_type \o "/"
                     \o ToString(year) \o Fmt02d(month) \o "/" \o filename
    IN  [raised |-> FALSE, url |-> url, filename |-> filename]

-----------------------------------------------------------------------------
(* download_era5_rda.py: credentials *)

\* a stripped line of ~/.cdsapirc: a section header such as [RDA], or `key: value`
Section(t) == [kind |-> "section", text |-> t, key |-> "", value |-> ""]
KV(k, v)   == [kind |-> "kv", text |-> "", key |-> k, value |-> v]

\* line == '[RDA]'
IsRdaHeader(line) == line.kind = "section" /\ line.text = "[RDA]"
\* line.startswith(k + ':'), and then line.split(':', 1)[1].strip() is line.value
StartsWithKey(line, k) == line.kind = "kv" /\ line.key = k

RECURSIVE ScanConfig(_, _, _, _)
\* the loop over the lines of the config file: in_rda_section is set by the
\* [RDA] line and never reset; later assignments overwrite earlier ones
ScanConfig(lines, in_rda_section, email, api_key) ==
    IF lines = <<>> THEN <<email, api_key>>
    ELSE LET line == Head(lines) IN
         IF IsRdaHeader(line) THEN ScanConfig(Tail(lines), TRUE, email, api_key)
         ELSE ScanConfig(Tail(lines), in_rda_section,
                  IF in_rda_section /\ StartsWithKey(line, "email")
                      THEN Some(line.value) ELSE email,
                  IF in_rda_section /\ StartsWithKey(line, "key")
                      THEN Some(line.value) ELSE api_key)

\* get_rda_credentials() -> (email, api_key)
get_rda_credentials(e, c) ==
    IF TruthyStr(e.RDA_EMAIL) /\ TruthyStr(e.RDA_KEY)
    THEN <<e.RDA_EMAIL, e.RDA_KEY>>
    ELSE IF c.exists THEN ScanConfig(c.lines, FALSE, e.RDA_EMAIL, e.RDA_KEY)
         ELSE <<e.RDA_EMAIL, e.RDA_KEY>>

\* check_credentials(): only the presence of ~/.cdsapirc is looked at
check_credentials(c) == c.exists

-----------------------------------------------------------------------------
(* download_era5_rda.py: the transfer of one file *)

\* A response body: its length in bytes and the one marker-like token it holds,
\* if any, with the byte offset the token starts at.
Body(sz, m, off) == [size |-> sz, marker |-> m, offset |-> off]
NoMarker == ""

SmallFileLimit == 1000
HeaderBytes == 100

\* bytes.lower() of the token
Lower(m) == CASE m = "<HTML" -> "<html"
              [] m = "<Html" -> "<html"
              [] m = "ERROR" -> "error"
              [] m = "Error" -> "error"
              [] OTHER -> m

\* needle in f.read(100).lower(): the token lies wholly inside the header read
InHeader(needle, body) ==
    /\ body.marker # NoMarker
    /\ Lower(body.marker) = needle
    /\ body.offset + Len(body.marker) <= (IF body.size < HeaderBytes
                                          THEN body.size ELSE HeaderBytes)

\* the size test left out: any file with a marker in its header is an error page
IsErrorPageAnySize(body) == InHeader("<html", body) \/ InHeader("error", body)

\* lines 204-212: the downloaded file is an error page
IsErrorPage(body) ==
    /\ body.size < SmallFileLimit
    /\ (InHeader("<html", body) \/ InHeader("error", body))

File(origin, body) == [origin |-> origin, body |-> body]

\* the existence check left out: every target looks absent
ExistsNever(d, path) == FALSE

\* output_file.exists() / target.exists()
Exists(d, path) == path \in DOMAIN d
WriteFile(d, path, f) == [q \in DOMAIN d \cup {path} |-> IF q = path THEN f ELSE d[q]]
Unlink(d, path) == [q \in DOMAIN d \ {path} |-> d[q]]

\* What the wget subprocess does: exit 0 having written `body` to the -O
\* path, or a non-zero exit (CalledProcessError) leaving the -O file written
\* so far, or subprocess.run raising something else (no file written).
WgetOk(body)           == [kind |-> "ok", body |-> body, wrote |-> TRUE]
WgetFailed(body)       == [kind |-> "CalledProcessError", body |-> body, wrote |-> TRUE]
WgetFailedNoFile       == [kind |-> "CalledProcessError", body |-> Body(0, NoMarker, 0),
                           wrote |-> FALSE]
WgetNotRun             == [kind |-> "Exception", body |-> Body(0, NoMarker, 0),
                           wrote |-> FALSE]

\* download_file(url, output_path), given the environment and what wget will
\* do if it is run: the result, the disk afterwards, the wget runs issued
download_file(url, output_path, e, c, d, net) ==
    LET cred    == get_rda_credentials(e, c)
        email   == cred[1]
        api_key == cred[2]
        call    == [path |-> output_path, url |-> url, user |-> email,
                    password |-> api_key, kind |-> net.kind]
        written == IF net.wrote THEN WriteFile(d, output_path, File("wget", net.body))
                   ELSE d
    IN  IF ~TruthyStr(email) \/ ~TruthyStr(api_key)
        THEN [result |-> FALSE, disk |-> d, calls |-> <<>>, reason |-> "AuthMissing"]
        ELSE IF net.kind = "ok"
        THEN IF IsErrorPage(net.body)
             THEN [result |-> FALSE, disk |-> Unlink(written, output_path),
                   calls |-> <<call>>, reason |-> "ErrorPage"]
             ELSE [result |-> TRUE, disk |-> written, calls |-> <<call>>,
                   reason |-> "Downloaded"]
        ELSE [result |-> FALSE,
              disk |-> IF Exists(written, output_path)
                       THEN Unlink(written, output_path) ELSE written,
              calls |-> <<call>>, reason |-> net.kind]

-----------------------------------------------------------------------------
(* download_era5_rda.py: the batch functions *)

\* vars_to_download: the table, or its entries named in a non-empty filter
VarsToDownload(table, variables_) ==
    IF TruthyList(variables_) THEN SelectSeqBy(table, variables_[1]) ELSE table

\* the loops nested the other way round: variables outer, days inner
PressureUnitsVarsOuter(days_, variables_) ==
    LET vs == VarsToDownload(PRESSURE_LEVEL_VARS, variables_)
    IN  Flatten([j \in 1..Len(vs) |->
                    [i \in 1..Len(days_) |-> [day |-> days_[i], var |-> vs[j]]]])

\* the units of the pressure-level loops: days outer, variables inner
PressureUnits(days_, variables_) ==
    LET vs == VarsToDownload(PRESSURE_LEVEL_VARS, variables_)
    IN  Flatten([i \in 1..Len(days_) |->
                    [j \in 1..Len(vs) |-> [day |-> days_[i], var |-> vs[j]]]])

\* the units of the single-level loop: one per variable
SingleUnits(variables_) == VarsToDownload(SINGLE_LEVEL_VARS, variables_)

IsLeap(year) == (year % 4 = 0 /\ year % 100 # 0) \/ year % 400 = 0
\* calendar.monthrange(year, month)[1]
LastDayOfMonth(year, month) ==
    IF month = 2 THEN (IF IsLeap(year) THEN 29 ELSE 28)
    ELSE IF month \in {4, 6, 9, 11} THEN 30 ELSE 31

\* int(var_code) of a decimal string without sign
IntOf(var_code) ==
    IF \E n \in 0..999 : ToString(n) = var_code
    THEN CHOOSE n \in 0..999 : ToString(n) = var_code
    ELSE CHOOSE n \in 0..99 : ("0" \o ToString(n) = var_code) \/ ("00" \o ToString(n) = var_code)

\* f"{n:03d}"
Fmt03d(n) == IF n < 10 THEN "00" \o ToString(n)
             ELSE IF n < 100 THEN "0" \o ToString(n) ELSE ToString(n)

\* var_name.lower() for the mnemonics of the tables
StrLower(name) ==
    CASE name = "SP" -> "sp"       [] name = "MSL" -> "msl"     [] name = "2T" -> "2t"
      [] name = "2D" -> "2d"       [] name = "10U" -> "10u"     [] name = "10V" -> "10v"
      [] name = "SSTK" -> "sstk"   [] name = "SKT" -> "skt"     [] name = "LSM" -> "lsm"
      [] name = "CI" -> "ci"       [] name = "SD" -> "sd"       [] name = "RSN" -> "rsn"
      [] name = "SWVL1" -> "swvl1" [] name = "SWVL2" -> "swvl2" [] name = "SWVL3" -> "swvl3"
      [] name = "SWVL4" -> "swvl4" [] name = "STL1" -> "stl1"   [] name = "STL2" -> "stl2"
      [] name = "STL3" -> "stl3"   [] name = "STL4" -> "stl4"   [] name = "Z" -> "z"
      [] name = "Q" -> "q"         [] name = "T" -> "t"         [] name = "U" -> "u"
      [] name = "V" -> "v"         [] OTHER -> name

\* lines 320-329: the monthly file of one single-level variable
MonthlyTarget(year, month, var) ==
    LET grid_type       == "sc"
        var_code_padded == Fmt03d(IntOf(var.param))
        start_datetime  == ToString(year) \o Fmt02d(month) \o "0100"
        end_datetime    == ToString(year) \o Fmt02d(month)
                           \o ToString(LastDayOfMonth(year, month)) \o "23"
        filename        == "e5.oper.an.sfc.128_" \o var_code_padded \o "_"
                           \o StrLower(var.name) \o ".ll025" \o grid_type \o "."
                           \o start_datetime \o "_" \o end_datetime \o ".nc"
    IN  [raised |-> FALSE,
         url |-> RDA_BASE_URL \o "/e5.oper.an.sfc/" \o ToString(year) \o Fmt02d(month)
                 \o "/" \o filename,
         filename |-> filename]

\* out_dir / filename, relative to --out-dir
PressurePath(filename) == "pressure_levels/" \o filename
SinglePath(filename)   == "single_levels/" \o filename

\* only the pressure-level failures looked at
ExitCodePressureOnly(pl, sl) == IF pl[3] > 0 THEN 1 ELSE 0

\* the three totals main prints (lines 438-440)
Totals(pl, sl) == <<pl[1] + sl[1], pl[2] + sl[2], pl[3] + sl[3]>>

\* sys.exit(1) when the summed failure count is positive (lines 444-446)
ExitCode(pl, sl) == IF pl[3] + sl[3] > 0 THEN 1 ELSE 0

-----------------------------------------------------------------------------
(* The state of one run *)

NoCall == [path |-> "", net |-> WgetNotRun, ran |-> FALSE, result |-> FALSE,
           reason |-> "none"]
NoLoc  == [called |-> FALSE, year |-> 0, month |-> 0, day |-> 0, param |-> "",
           level_type |-> "", out |-> [raised |-> FALSE, url |-> "", filename |-> ""]]

\* a file left by an earlier run
EarlierFile == File("earlier", Body(5000, NoMarker, 0))
DiskWith(paths) == [q \in paths |-> EarlierFile]

OptDays == {None} \cup {Some(d) : d \in 1..MaxDay}

\* --vars after split(',') and strip(): absent, known mnemonics, an unknown one
VarFilters == {None, Some(<<"Z", "SP">>), Some(<<"T", "FOO">>)}

\* --day alone, or --start-day/--end-day (each may be missing)
RdaArgs ==
    { a \in [year : {2016}, month : {2}, day : {None, Some(1)}, start_day : OptDays,
             end_day : OptDays, vars : VarFilters, skip_pressure : BOOLEAN,
             skip_single : BOOLEAN] :
        a.day # None => (a.start_day = None /\ a.end_day = None) }

\* --area after split(','): absent, four numbers, too few values
AreaArgs == {None, Some(<<"40", "-120", "25", "-105">>), Some(<<"40", "-120">>)}

CdsArgs ==
    [year : {"2016"}, month : {"2"}, start_day : 1..MaxDay, end_day : 1..MaxDay,
     area : AreaArgs, skip_pressure : BOOLEAN, skip_single : BOOLEAN]

\* os.environ, for get_rda_credentials alone and for a whole run
Environments ==
    [RDA_EMAIL : {None, Some("env_user")}, RDA_KEY : {None, Some("env_key")}]
RunEnvironments ==
    { [RDA_EMAIL |-> None, RDA_KEY |-> None],
      [RDA_EMAIL |-> Some("env_user"), RDA_KEY |-> Some("env_key")] }

NoConfig == [exists |-> FALSE, lines |-> <<>>]
ConfigFile(lines) == [exists |-> TRUE, lines |-> lines]
\* a ~/.cdsapirc as the CDS client wants it: no [RDA] section
CdsOnlyConfig ==
    ConfigFile(<<KV("url", "https://cds.climate.copernicus.eu/api"), KV("key", "cds_key")>>)
\* ~/.cdsapirc for get_rda_credentials alone
ConfigFiles ==
    { NoConfig,
      CdsOnlyConfig,
      ConfigFile(<<Section("[RDA]"), KV("email", "file_user"), KV("key", "file_key")>>),
      ConfigFile(<<Section("[RDA]"), KV("email", "file_user")>>),
      ConfigFile(<<Section("[RDA]"), KV("key", "file_key")>>),
      ConfigFile(<<Section("[RDA]"), KV("email", ""), KV("key", "file_key")>>),
      ConfigFile(<<KV("email", "file_user"), KV("key", "file_key")>>) }
\* ~/.cdsapirc of a whole run
RunConfigFiles == {NoConfig, CdsOnlyConfig}

\* files an earlier run of the same script may have left in the output tree
RdaEarlier ==
    { PressurePath(build_rda_url(2016, 2, 1, "129", "pl").filename),
      SinglePath(MonthlyTarget(2016, 2, SINGLE_LEVEL_VARS[1]).filename) }
CdsEarlier == { "p_levels/era5_pl_20160201.grib", "s_levels/era5_sl_20160202.grib" }

\* what wget does for one unit of a batch
BatchNet ==
    { WgetOk(Body(5000, NoMarker, 0)), WgetOk(Body(200, "<html", 0)),
      WgetFailed(Body(0, NoMarker, 0)) }

TypeOK ==
    /\ archive \in {"RDA", "CDS"}
    /\ pc \in {"main", "pl_call", "pl_loop", "sl_call", "sl_loop", "summary", "exit",
               "fetch", "fetched", "locate", "located"}
    /\ idx \in Nat /\ success_count \in Nat /\ skip_count \in Nat /\ fail_count \in Nat
    /\ exit_status \in {0, 1}

Init ==
    /\ archive \in {"RDA", "CDS"}
    /\ args \in (IF archive = "RDA" THEN RdaArgs ELSE CdsArgs)
    /\ env \in (IF archive = "RDA" THEN RunEnvironments
                ELSE {[RDA_EMAIL |-> None, RDA_KEY |-> None]})
    /\ cfg \in (IF archive = "RDA" THEN RunConfigFiles ELSE {NoConfig})
    /\ disk \in {DiskWith({}), DiskWith(IF archive = "RDA" THEN RdaEarlier
                                                             ELSE CdsEarlier)}
    /\ pc = "main"
    /\ days = <<>>
    /\ variables = None
    /\ idx = 0
    /\ success_count = 0 /\ skip_count = 0 /\ fail_count = 0
    /\ pl_stats = <<0, 0, 0>> /\ sl_stats = <<0, 0, 0>>
    /\ exit_status = 0
    /\ exit_at = "running"
    /\ log = <<>>
    /\ transfers = <<>>
    /\ last = NoCall
    /\ loc = NoLoc

\* sys.exit(status), or main returning (status 0)
Exit(status, where) ==
    /\ pc' = "exit"
    /\ exit_status' = status
    /\ exit_at' = where

Logged(path, outcome) == [path |-> path, outcome |-> outcome]

\* transfers of this run that the network made fail
FailedTransfers == Cardinality({i \in 1..Len(transfers) : transfers[i].kind # "ok"
                                   \/ ~transfers[i].kept})

-----------------------------------------------------------------------------
(* download_era5_rda.py: main and the batch loops *)

\* lines 385-392: the day list, or no list
ParseDays(a) ==
    IF TruthyInt(a.day) THEN Some(<<a.day[1]>>)
    ELSE IF TruthyInt(a.start_day) /\ TruthyInt(a.end_day)
         THEN Some(RangeList(a.start_day[1], a.end_day[1]))
         ELSE None

\* lines 394-397
ParseVars(a) == IF TruthyList(a.vars) THEN a.vars ELSE None

\* main, lines 379-414: credentials check, day list, variable filter
RdaMain ==
    /\ archive = "RDA" /\ pc = "main"
    /\ IF ~check_credentials(cfg)
       THEN Exit(1, "credentials") /\ UNCHANGED <<days, variables>>
       ELSE IF ParseDays(args) = None
       THEN Exit(1, "days") /\ UNCHANGED <<days, variables>>
       ELSE /\ days' = ParseDays(args)[1]
            /\ variables' = ParseVars(args)
            /\ pc' = "pl_call"
            /\ UNCHANGED <<exit_status, exit_at>>
    /\ UNCHANGED <<archive, args, env, cfg, disk, idx, success_count, skip_count,
                   fail_count, pl_stats, sl_stats, log, transfers, last, loc>>

\* the loop body keeping no count of the targets it skips
RdaUnitNoSkipCount(target, path) ==
    IF Exists(disk, path)
    THEN /\ log' = Append(log, Logged(path, "skipped"))
         /\ UNCHANGED <<disk, transfers, last, success_count, skip_count, fail_count>>
    ELSE \E net \in BatchNet :
            LET r == download_file(target.url, path, env, cfg, disk, net) IN
            /\ r.result \/ r.calls = <<>> \/ FailedTransfers < MaxFailures
            /\ disk' = r.disk
            /\ transfers' = transfers \o [i \in 1..Len(r.calls) |->
                                [path |-> r.calls[i].path, user |-> r.calls[i].user,
                                 password |-> r.calls[i].password,
                                 kind |-> r.calls[i].kind, kept |-> r.result]]
            /\ last' = [path |-> path, net |-> net, ran |-> r.calls # <<>>,
                        result |-> r.result, reason |-> r.reason]
            /\ IF r.result
               THEN /\ success_count' = success_count + 1
                    /\ log' = Append(log, Logged(path, "downloaded"))
                    /\ UNCHANGED fail_count
               ELSE /\ fail_count' = fail_count + 1
                    /\ log' = Append(log, Logged(path, "failed"))
                    /\ UNCHANGED success_count
            /\ UNCHANGED skip_count

\* lines 265-275 and 332-343: one unit of a batch loop, given its locator
\* result and local path
RdaUnit(target, path) ==
    IF Exists(disk, path)
    THEN /\ skip_count' = skip_count + 1
         /\ log' = Append(log, Logged(path, "skipped"))
         /\ UNCHANGED <<disk, transfers, last, success_count, fail_count>>
    ELSE \E net \in BatchNet :
            LET r == download_file(target.url, path, env, cfg, disk, net) IN
            /\ r.result \/ r.calls = <<>> \/ FailedTransfers < MaxFailures
            /\ disk' = r.disk
            /\ transfers' = transfers \o [i \in 1..Len(r.calls) |->
                                [path |-> r.calls[i].path, user |-> r.calls[i].user,
                                 password |-> r.calls[i].password,
                                 kind |-> r.calls[i].kind, kept |-> r.result]]
            /\ last' = [path |-> path, net |-> net, ran |-> r.calls # <<>>,
                        result |-> r.result, reason |-> r.reason]
            /\ IF r.result
               THEN /\ success_count' = success_count + 1
                    /\ log' = Append(log, Logged(path, "downloaded"))
                    /\ UNCHANGED fail_count
               ELSE /\ fail_count' = fail_count + 1
                    /\ log' = Append(log, Logged(path, "failed"))
                    /\ UNCHANGED success_count
            /\ UNCHANGED skip_count

\* main line 417 and download_era5_pressure_levels up to its loop
RdaPressureCall ==
    /\ archive = "RDA" /\ pc = "pl_call"
    /\ IF args.skip_pressure THEN pc' = "sl_call" ELSE pc' = "pl_loop"
    /\ idx' = 0 /\ success_count' = 0 /\ skip_count' = 0 /\ fail_count' = 0
    /\ UNCHANGED <<archive, args, env, cfg, disk, days, variables, pl_stats, sl_stats,
                   exit_status, exit_at, log, transfers, last, loc>>

\* one iteration of the loops of download_era5_pressure_levels
RdaPressureUnit ==
    /\ archive = "RDA" /\ pc = "pl_loop"
    /\ idx < Len(PressureUnits(days, variables))
    /\ LET u      == PressureUnits(days, variables)[idx + 1]
           target == build_rda_url(args.year, args.month, u.day, u.var.param,
                                   u.var.level_type)
       IN  /\ loc' = [called |-> TRUE, year |-> args.year, month |-> args.month,
                      day |-> u.day, param |-> u.var.param,
                      level_type |-> u.var.level_type, out |-> target]
           /\ RdaUnit(target, PressurePath(target.filename))
    /\ idx' = idx + 1
    /\ UNCHANGED <<archive, args, env, cfg, pc, days, variables, pl_stats, sl_stats,
                   exit_status, exit_at>>

\* the loops are over: summary line and return
RdaPressureReturn ==
    /\ archive = "RDA" /\ pc = "pl_loop"
    /\ idx = Len(PressureUnits(days, variables))
    /\ pl_stats' = <<success_count, skip_count, fail_count>>
    /\ pc' = "sl_call"
    /\ UNCHANGED <<archive, args, env, cfg, disk, days, variables, idx, success_count,
                   skip_count, fail_count, sl_stats, exit_status, exit_at, log,
                   transfers, last, loc>>

\* main line 425 and download_era5_single_levels up to its loop
RdaSingleCall ==
    /\ archive = "RDA" /\ pc = "sl_call"
    /\ IF args.skip_single THEN pc' = "summary" ELSE pc' = "sl_loop"
    /\ idx' = 0 /\ success_count' = 0 /\ skip_count' = 0 /\ fail_count' = 0
    /\ UNCHANGED <<archive, args, env, cfg, disk, days, variables, pl_stats, sl_stats,
                   exit_status, exit_at, log, transfers, last, loc>>

\* one iteration of the loop of download_era5_single_levels
RdaSingleUnit ==
    /\ archive = "RDA" /\ pc = "sl_loop"
    /\ idx < Len(SingleUnits(variables))
    /\ LET target == MonthlyTarget(args.year, args.month, SingleUnits(variables)[idx + 1])
       IN  RdaUnit(target, SinglePath(target.filename))
    /\ idx' = idx + 1
    /\ UNCHANGED <<archive, args, env, cfg, pc, days, variables, pl_stats, sl_stats,
                   exit_status, exit_at, loc>>

RdaSingleReturn ==
    /\ archive = "RDA" /\ pc = "sl_loop"
    /\ idx = Len(SingleUnits(variables))
    /\ sl_stats' = <<success_count, skip_count, fail_count>>
    /\ pc' = "summary"
    /\ UNCHANGED <<archive, args, env, cfg, disk, days, variables, idx, success_count,
                   skip_count, fail_count, pl_stats, exit_status, exit_at, log,
                   transfers, last, loc>>

\* main, lines 432-446: totals and exit status
RdaSummary ==
    /\ archive = "RDA" /\ pc = "summary"
    /\ Exit(ExitCode(pl_stats, sl_stats), "end")
    /\ UNCHANGED <<archive, args, env, cfg, disk, days, variables, idx, success_count,
                   skip_count, fail_count, pl_stats, sl_stats, log, transfers, last, loc>>

-----------------------------------------------------------------------------
(* download_era5_cds.py *)

\* float(x) succeeds for the pieces of --area the model draws
IsFloat(x) == x \in {"40", "-120", "25", "-105"}

\* lines 233-242: the --area value is rejected
AreaInvalid(a) ==
    /\ TruthyList(a.area)
    /\ \/ \E i \in 1..Len(a.area[1]) : ~IsFloat(a.area[1][i])
       \/ Len(a.area[1]) # 4

\* line 227: [f"{d:02d}" for d in range(start_day, end_day + 1)]
CdsDays(a) ==
    LET r == RangeList(a.start_day, a.end_day) IN [i \in 1..Len(r) |-> Fmt02d(r[i])]

\* lines 73 and 153: Path(out_dir) / f"era5_{kind}_{year}{month}{day}.grib"
CdsTarget(subdir, kind, year, month, day) ==
    subdir \o "/era5_" \o kind \o "_" \o year \o month \o day \o ".grib"

\* client.retrieve(...): returns with the target written, or raises, leaving
\* no file or the part of the target written so far
CdsNet == {"ok", "raise", "raise_partial"}

GribFile    == File("cdsapi", Body(5000, NoMarker, 0))
PartialGrib == File("cdsapi_partial", Body(700, NoMarker, 0))

\* main, lines 220-258
CdsMain ==
    /\ archive = "CDS" /\ pc = "main"
    /\ IF AreaInvalid(args)
       THEN Exit(1, "area") /\ UNCHANGED days
       ELSE /\ days' = CdsDays(args)
            /\ pc' = "pl_call"
            /\ UNCHANGED <<exit_status, exit_at>>
    /\ UNCHANGED <<archive, args, env, cfg, disk, variables, idx, success_count,
                   skip_count, fail_count, pl_stats, sl_stats, log, transfers, last, loc>>

\* lines 72-103 and 152-182: one iteration of a per-day loop
CdsUnit(path) ==
    IF Exists(disk, path)
    THEN /\ log' = Append(log, Logged(path, "skipped"))
         /\ idx' = idx + 1
         /\ UNCHANGED <<disk, transfers, pc, exit_status, exit_at>>
    ELSE \E out \in CdsNet :
            /\ transfers' = Append(transfers,
                                [path |-> path, user |-> None, password |-> None,
                                 kind |-> out, kept |-> out = "ok"])
            /\ IF out = "ok"
               THEN /\ disk' = WriteFile(disk, path, GribFile)
                    /\ log' = Append(log, Logged(path, "downloaded"))
                    /\ idx' = idx + 1
                    /\ UNCHANGED <<pc, exit_status, exit_at>>
               ELSE /\ disk' = IF out = "raise_partial"
                               THEN WriteFile(disk, path, PartialGrib) ELSE disk
                    /\ log' = Append(log, Logged(path, "failed"))
                    /\ Exit(1, "batch")
                    /\ UNCHANGED idx

\* main line 261 and download_era5_pressure_levels up to its loop
CdsPressureCall ==
    /\ archive = "CDS" /\ pc = "pl_call"
    /\ IF args.skip_pressure THEN pc' = "sl_call" ELSE pc' = "pl_loop"
    /\ idx' = 0
    /\ UNCHANGED <<archive, args, env, cfg, disk, days, variables, success_count,
                   skip_count, fail_count, pl_stats, sl_stats, exit_status, exit_at,
                   log, transfers, last, loc>>

CdsPressureUnit ==
    /\ archive = "CDS" /\ pc = "pl_loop"
    /\ idx < Len(days)
    /\ CdsUnit(CdsTarget("p_levels", "pl", args.year, Zfill2(args.month), days[idx + 1]))
    /\ UNCHANGED <<archive, args, env, cfg, days, variables, success_count, skip_count,
                   fail_count, pl_stats, sl_stats, last, loc>>

CdsPressureReturn ==
    /\ archive = "CDS" /\ pc = "pl_loop"
    /\ idx = Len(days)
    /\ pc' = "sl_call"
    /\ UNCHANGED <<archive, args, env, cfg, disk, days, variables, idx, success_count,
                   skip_count, fail_count, pl_stats, sl_stats, exit_status, exit_at,
                   log, transfers, last, loc>>

\* main line 275 and download_era5_single_levels up to its loop
CdsSingleCall ==
    /\ archive = "CDS" /\ pc = "sl_call"
    /\ IF args.skip_single THEN pc' = "summary" ELSE pc' = "sl_loop"
    /\ idx' = 0
    /\ UNCHANGED <<archive, args, env, cfg, disk, days, variables, success_count,
                   skip_count, fail_count, pl_stats, sl_stats, exit_status, exit_at,
                   log, transfers, last, loc>>

CdsSingleUnit ==
    /\ archive = "CDS" /\ pc = "sl_loop"
    /\ idx < Len(days)
    /\ CdsUnit(CdsTarget("s_levels", "sl", args.year, Zfill2(args.month), days[idx + 1]))
    /\ UNCHANGED <<archive, args, env, cfg, days, variables, success_count, skip_count,
                   fail_count, pl_stats, sl_stats, last, loc>>

CdsSingleReturn ==
    /\ archive = "CDS" /\ pc = "sl_loop"
    /\ idx = Len(days)
    /\ pc' = "summary"
    /\ UNCHANGED <<archive, args, env, cfg, disk, days, variables, idx, success_count,
                   skip_count, fail_count, pl_stats, sl_stats, exit_status, exit_at,
                   log, transfers, last, loc>>

\* main, lines 288-294: main returns, the process ends with status 0
CdsSummary ==
    /\ archive = "CDS" /\ pc = "summary"
    /\ Exit(0, "end")
    /\ UNCHANGED <<archive, args, env, cfg, disk, days, variables, idx, success_count,
                   skip_count, fail_count, pl_stats, sl_stats, log, transfers, last, loc>>

-----------------------------------------------------------------------------
(* One run of either script *)

Next ==
    \/ RdaMain
    \/ RdaPressureCall
    \/ RdaPressureUnit
    \/ RdaPressureReturn
    \/ RdaSingleCall
    \/ RdaSingleUnit
    \/ RdaSingleReturn
    \/ RdaSummary
    \/ CdsMain
    \/ CdsPressureCall
    \/ CdsPressureUnit
    \/ CdsPressureReturn
    \/ CdsSingleCall
    \/ CdsSingleUnit
    \/ CdsSingleReturn
    \/ CdsSummary

Spec == Init /\ [][Next]_vars

-----------------------------------------------------------------------------
(* download_file on its own: one call, any credentials, any response *)

Bodies ==
    { Body(5000, NoMarker, 0), Body(5000, "<html", 0), Body(1000, "error", 0),
      Body(999, "<html", 0), Body(999, "<HTML", 10), Body(999, "Error", 95),
      Body(999, "error", 96), Body(999, NoMarker, 0), Body(500, "html", 0),
      Body(60, "ERROR", 55), Body(0, NoMarker, 0) }

FetchNet ==
    {WgetOk(b) : b \in Bodies}
        \cup {WgetFailed(Body(0, NoMarker, 0)), WgetFailed(Body(700, NoMarker, 0)),
              WgetFailedNoFile, WgetNotRun}

\* the files download_file is called for: a daily and a monthly one
FetchTargets ==
    { [url |-> build_rda_url(2016, 2, 1, "129", "pl").url,
       path |-> PressurePath(build_rda_url(2016, 2, 1, "129", "pl").filename)],
      [url |-> MonthlyTarget(2016, 2, SINGLE_LEVEL_VARS[1]).url,
       path |-> SinglePath(MonthlyTarget(2016, 2, SINGLE_LEVEL_VARS[1]).filename)] }

InitFetch ==
    /\ archive = "RDA"
    /\ args = [year |-> 2016, month |-> 2, day |-> Some(1), start_day |-> None,
               end_day |-> None, vars |-> None, skip_pressure |-> FALSE,
               skip_single |-> FALSE]
    /\ env \in Environments
    /\ cfg \in ConfigFiles
    /\ disk \in {DiskWith({}), DiskWith({"pressure_levels/other.nc"})}
    /\ pc = "fetch"
    /\ days = <<1>>
    /\ variables = None
    /\ idx = 0
    /\ success_count = 0 /\ skip_count = 0 /\ fail_count = 0
    /\ pl_stats = <<0, 0, 0>> /\ sl_stats = <<0, 0, 0>>
    /\ exit_status = 0
    /\ exit_at = "running"
    /\ log = <<>>
    /\ transfers = <<>>
    /\ last = NoCall
    /\ loc = NoLoc

\* one call download_file(url, output_path) for a file that is not on disk
Fetch ==
    /\ pc = "fetch"
    /\ \E t \in FetchTargets, net \in FetchNet :
          LET r == download_file(t.url, t.path, env, cfg, disk, net) IN
          /\ disk' = r.disk
          /\ transfers' = transfers \o [i \in 1..Len(r.calls) |->
                              [path |-> r.calls[i].path, user |-> r.calls[i].user,
                               password |-> r.calls[i].password,
                               kind |-> r.calls[i].kind, kept |-> r.result]]
          /\ last' = [path |-> t.path, net |-> net, ran |-> r.calls # <<>>,
                      result |-> r.result, reason |-> r.reason]
          /\ log' = Append(log, Logged(t.path, IF r.result THEN "downloaded" ELSE "failed"))
    /\ pc' = "fetched"
    /\ UNCHANGED <<archive, args, env, cfg, days, variables, idx, success_count,
                   skip_count, fail_count, pl_stats, sl_stats, exit_status, exit_at, loc>>

NextFetch == Fetch

SpecFetch == InitFetch /\ [][NextFetch]_vars

-----------------------------------------------------------------------------
(* build_rda_url on its own: one call, any date, any parameter code *)

LocYears  == {2015, 2016}
LocMonths == 1..12
LocDays   == {1, 9, 10, 31}
\* the codes of the tables, and codes no table holds
LocParams ==
    {PRESSURE_LEVEL_VARS[i].param : i \in 1..Len(PRESSURE_LEVEL_VARS)}
        \cup {SINGLE_LEVEL_VARS[i].param : i \in 1..Len(SINGLE_LEVEL_VARS)}
        \cup {"228", "999", "7"}

InitLocator ==
    /\ archive = "RDA"
    /\ args = [year |-> 2016, month |-> 2, day |-> Some(1), start_day |-> None,
               end_day |-> None, vars |-> None, skip_pressure |-> FALSE,
               skip_single |-> FALSE]
    /\ env = [RDA_EMAIL |-> None, RDA_KEY |-> None]
    /\ cfg = NoConfig
    /\ disk = DiskWith({})
    /\ pc = "locate"
    /\ days = <<>>
    /\ variables = None
    /\ idx = 0
    /\ success_count = 0 /\ skip_count = 0 /\ fail_count = 0
    /\ pl_stats = <<0, 0, 0>> /\ sl_stats = <<0, 0, 0>>
    /\ exit_status = 0
    /\ exit_at = "running"
    /\ log = <<>>
    /\ transfers = <<>>
    /\ last = NoCall
    /\ loc = NoLoc

\* one call build_rda_url(year, month, day, param, level_type)
Locate ==
    /\ pc = "locate"
    /\ \E y \in LocYears, m \in LocMonths, d \in LocDays, p \in LocParams,
          l \in {"pl", "sfc"} :
          loc' = [called |-> TRUE, year |-> y, month |-> m, day |-> d, param |-> p,
                  level_type |-> l, out |-> build_rda_url(y, m, d, p, l)]
    /\ pc' = "located"
    /\ UNCHANGED <<archive, args, env, cfg, disk, days, variables, idx, success_count,
                   skip_count, fail_count, pl_stats, sl_stats, exit_status, exit_at,
                   log, transfers, last>>

NextLocator == Locate

SpecLocator == InitLocator /\ [][NextLocator]_vars

-----------------------------------------------------------------------------
(* Properties *)

LogIndexes(outcome) == {i \in 1..Len(log) : log[i].outcome = outcome}
FailedUnits == Cardinality(LogIndexes("failed"))

\* the transfers issued and the units reached by the step being taken
NewTransfers == {transfers'[i].path : i \in (Len(transfers) + 1)..Len(transfers')}
NewUnits     == {log'[i] : i \in (Len(log) + 1)..Len(log')}

\* C1: a unit whose target file is on disk when the unit is reached gets no
\* transfer, its file is left as it is and the unit is recorded as skipped (in
\* the RDA batches by skip_count alone going up); so no step of a run fetches
\* a file that is on disk.
C1_ExistingTargetSkipped ==
    [][\A p \in DOMAIN disk :
          /\ p \in DOMAIN disk' /\ disk'[p] = disk[p]
          /\ p \notin NewTransfers
          /\ \A u \in NewUnits : u.path = p =>
                /\ u.outcome = "skipped"
                /\ archive = "RDA" =>
                      /\ skip_count' = skip_count + 1
                      /\ success_count' = success_count
                      /\ fail_count' = fail_count]_vars

\* C1 witness: a run that skipped a file left by an earlier run and fetched
\* another one
C1_Witness ==
    /\ \E i \in LogIndexes("skipped") : disk[log[i].path] = EarlierFile
    /\ LogIndexes("downloaded") # {}
    /\ transfers # <<>>

\* the number of units the batches that are not skipped enumerate
UnitsOfRun ==
    IF archive = "RDA"
    THEN (IF args.skip_pressure THEN 0 ELSE Len(PressureUnits(days, variables)))
         + (IF args.skip_single THEN 0 ELSE Len(SingleUnits(variables)))
    ELSE (IF args.skip_pressure THEN 0 ELSE Len(days))
         + (IF args.skip_single THEN 0 ELSE Len(days))

ConfigExits == {"credentials", "days", "area"}

\* C2: no unit failure ends a batch: a run that got past its configuration
\* checks ends at the end of main, with every enumerated unit attempted.
C2_BatchNeverAborts ==
    (pc = "exit" /\ exit_at \notin ConfigExits) =>
        (exit_at = "end" /\ Len(log) = UnitsOfRun)

\* C3: once the batches have been reached, the process status is non-zero
\* exactly when some unit of the batches that ran failed; a skipped batch
\* contributes (0, 0, 0).
C3_ExitStatusIffFailures ==
    /\ (pc = "exit" /\ exit_at \notin ConfigExits) =>
           (exit_status # 0 <=> FailedUnits > 0)
    /\ (archive = "RDA" /\ pc = "exit" /\ exit_at = "end") =>
           /\ args.skip_pressure => pl_stats = <<0, 0, 0>>
           /\ args.skip_single => sl_stats = <<0, 0, 0>>
           /\ pl_stats[3] + sl_stats[3] = FailedUnits

\* C3 witness: an RDA run whose only failure is in the single-level batch ends
\* with status 1
C3_Witness ==
    /\ archive = "RDA" /\ pc = "exit" /\ exit_at = "end"
    /\ pl_stats[3] = 0 /\ pl_stats[1] > 0 /\ sl_stats[3] > 0
    /\ exit_status = 1

\* C4: after the fetch of a unit has failed, the unit's target is not on disk.
C4_NoFileAfterFailure ==
    \A i \in LogIndexes("failed") : log[i].path \notin DOMAIN disk

MarkerTokens == {"<html", "<HTML", "<Html", "error", "ERROR", "Error"}

\* C5: after wget has exited with status 0, download_file reports failure and
\* removes the file exactly when the file is under 1000 bytes and a token
\* '<html' or 'error', in any case, lies within its first 100 bytes; otherwise
\* it reports success and the file stays as written.
C5_ErrorPageSniff ==
    (last.ran /\ last.net.kind = "ok") =>
        LET b      == last.net.body
            marked == /\ b.marker \in MarkerTokens
                      /\ b.offset + 5 <= 100
                      /\ b.offset + 5 <= b.size
        IN  IF b.size < 1000 /\ marked
            THEN ~last.result /\ last.path \notin DOMAIN disk
            ELSE /\ last.result
                 /\ last.path \in DOMAIN disk
                 /\ disk[last.path].body = b

\* C5 witness: a small response with a capitalised token ending at byte 100 was
\* rejected
C5_Witness ==
    /\ last.ran /\ last.net.kind = "ok"
    /\ last.net.body = Body(999, "Error", 95)
    /\ ~last.result

EnvComplete == TruthyStr(env.RDA_EMAIL) /\ TruthyStr(env.RDA_KEY)
FileComplete ==
    /\ cfg.exists
    /\ TruthyStr(ScanConfig(cfg.lines, FALSE, None, None)[1])
    /\ TruthyStr(ScanConfig(cfg.lines, FALSE, None, None)[2])

\* C6: when neither the environment pair nor the config file supplies both an
\* identity and a secret by itself, download_file fails without running wget
\* and without creating the target.
C6_OneSourceSuppliesBoth ==
    (pc = "fetched" /\ ~EnvComplete /\ ~FileComplete) =>
        (~last.result /\ ~last.ran /\ last.path \notin DOMAIN disk)

\* C7: with RDA_EMAIL and RDA_KEY both set, the run gets past the credentials
\* check whatever ~/.cdsapirc is, and every transfer uses the two values.
C7_EnvironmentPairSuffices ==
    (archive = "RDA" /\ EnvComplete) =>
        /\ exit_at # "credentials"
        /\ \A i \in 1..Len(transfers) :
              transfers[i].user = env.RDA_EMAIL /\ transfers[i].password = env.RDA_KEY

\* the day range given on the command line is inverted (and is what decides
\* the day list)
InvertedRange ==
    IF archive = "RDA"
    THEN /\ ~TruthyInt(args.day)
         /\ args.start_day # None /\ args.end_day # None
         /\ args.start_day[1] > args.end_day[1]
    ELSE args.start_day > args.end_day

\* C8: a run given an inverted day range issues no transfer and ends with a
\* non-zero status.
C8_InvertedRangeRejected ==
    InvertedRange =>
        /\ transfers = <<>>
        /\ pc = "exit" => exit_status # 0

KnownMnemonics ==
    {PRESSURE_LEVEL_VARS[i].name : i \in 1..Len(PRESSURE_LEVEL_VARS)}
        \cup {SINGLE_LEVEL_VARS[i].name : i \in 1..Len(SINGLE_LEVEL_VARS)}

UnknownInFilter ==
    /\ archive = "RDA"
    /\ args.vars # None
    /\ \E i \in 1..Len(args.vars[1]) : args.vars[1][i] \notin KnownMnemonics

\* C9: a run whose --vars names a mnemonic of neither table issues no transfer
\* and ends with a non-zero status.
C9_UnknownMnemonicRejected ==
    UnknownInFilter =>
        /\ transfers = <<>>
        /\ pc = "exit" => exit_status # 0

\* C10: build_rda_url raises for a parameter code that is no key of var_map.
C10_UnknownParamFails ==
    (loc.called /\ loc.param \notin DOMAIN var_map) => loc.out.raised

\* the day list the command line asks for: --day alone, or start..end
AskedDays ==
    IF TruthyInt(args.day) THEN <<args.day[1]>>
    ELSE [i \in 1..(args.end_day[1] - args.start_day[1] + 1) |-> args.start_day[1] + i - 1]

\* the entries of a table the command line asks for, in table order
AskedVars(table) ==
    IF args.vars = None THEN table
    ELSE SelectSeq(table, LAMBDA e : e.name \in {args.vars[1][i] : i \in 1..Len(args.vars[1])})

\* the number of units the two batches are asked for
AskedPressureCount ==
    IF args.skip_pressure THEN 0
    ELSE Len(AskedDays) * Len(AskedVars(PRESSURE_LEVEL_VARS))
AskedSingleCount ==
    IF args.skip_single THEN 0 ELSE Len(AskedVars(SINGLE_LEVEL_VARS))

\* the target of the k-th unit of the run: in the pressure-level batch unit k
\* is day ((k-1) div n) + 1 of the asked days and variable ((k-1) mod n) + 1
\* of the n asked variables; the single-level batch follows with one unit per
\* asked variable
AskedPath(k) ==
    IF k <= AskedPressureCount
    THEN LET vs == AskedVars(PRESSURE_LEVEL_VARS)
             n  == Len(vs)
         IN  PressurePath(build_rda_url(args.year, args.month,
                                        AskedDays[((k - 1) \div n) + 1],
                                        vs[((k - 1) % n) + 1].param, "pl").filename)
    ELSE SinglePath(MonthlyTarget(args.year, args.month,
                        AskedVars(SINGLE_LEVEL_VARS)[k - AskedPressureCount]).filename)

\* C11: an RDA run with a day list start..end, start <= end (or a single
\* --day), processes the units (day, variable) of the pressure-level batch
\* days outer, variables inner, (end - start + 1) x |variables| of them, then
\* one unit per single-level variable whatever the days are; the variables are
\* the whole table without --vars and its entries named in --vars otherwise;
\* no unit is processed twice and none is left out.  (Each unit is compared
\* when it is processed; the targets are compared with each other once, before
\* the first batch.)
C11_UnitsEnumerated ==
    (archive = "RDA" /\ pc \notin {"main", "fetch", "fetched", "locate", "located"}
        /\ exit_at \notin ConfigExits /\ ~InvertedRange) =>
        LET np == AskedPressureCount
            ns == AskedSingleCount
        IN  /\ Len(log) <= np + ns
            /\ Len(log) > 0 => log[Len(log)].path = AskedPath(Len(log))
            /\ pc = "pl_call" =>
                  Cardinality({AskedPath(k) : k \in 1..(np + ns)}) = np + ns
            /\ pc = "pl_loop" => Len(log) = idx
            /\ pc = "sl_call" => Len(log) = np
            /\ pc = "sl_loop" => Len(log) = np + idx
            /\ pc \in {"summary", "exit"} => Len(log) = np + ns
            /\ (args.vars = None /\ ~TruthyInt(args.day) /\ ~args.skip_pressure) =>
                  np = (args.end_day[1] - args.start_day[1] + 1) * Len(PRESSURE_LEVEL_VARS)
            /\ (args.vars = None /\ ~args.skip_single) => ns = Len(SINGLE_LEVEL_VARS)

\* C11 witness: a finished run over days 1..2 without --vars that ran both
\* batches: 2 x 5 daily units and 20 monthly ones
C11_Witness ==
    /\ archive = "RDA" /\ pc = "exit" /\ exit_at = "end"
    /\ args.vars = None /\ args.day = None
    /\ args.start_day = Some(1) /\ args.end_day = Some(2)
    /\ ~args.skip_pressure /\ ~args.skip_single
    /\ Len(log) = 30

\* the daily file name with the parameter code padded to three digits
PaddedDailyName(year, month, day, param, level_type) ==
    "e5.oper.an." \o level_type \o ".128_" \o Fmt03d(IntOf(param)) \o "_"
        \o VarMapGet(param)[1] \o ".ll025" \o VarMapGet(param)[2] \o "."
        \o ToString(year) \o Fmt02d(month) \o Fmt02d(day) \o "00_"
        \o ToString(year) \o Fmt02d(month) \o Fmt02d(day) \o "23.nc"

\* the monthly file name with the parameter code padded to three digits
PaddedMonthlyName(year, month, var) ==
    "e5.oper.an.sfc.128_" \o Fmt03d(IntOf(var.param)) \o "_" \o StrLower(var.name)
        \o ".ll025sc." \o ToString(year) \o Fmt02d(month) \o "0100_"
        \o ToString(year) \o Fmt02d(month) \o ToString(LastDayOfMonth(year, month))
        \o "23.nc"

\* C12: the file names of the per-variable archive carry the parameter code
\* padded with zeros to three digits: the daily name build_rda_url returns, for
\* any code of one to three digits, and the monthly name of every single-level
\* unit processed.
C12_CodePaddedToThreeDigits ==
    /\ loc.called =>
          loc.out.filename
              = PaddedDailyName(loc.year, loc.month, loc.day, loc.param, loc.level_type)
    /\ (archive = "RDA" /\ pc = "sl_loop" /\ idx > 0) =>
          log[Len(log)].path
              = SinglePath(PaddedMonthlyName(args.year, args.month,
                                             SingleUnits(variables)[idx]))

\* the monthly file name with the short name and the grid kind var_map gives
\* the variable's parameter code
VarMapMonthlyName(year, month, var) ==
    "e5.oper.an.sfc.128_" \o Fmt03d(IntOf(var.param)) \o "_" \o var_map[var.param][1]
        \o ".ll025" \o var_map[var.param][2] \o "." \o ToString(year) \o Fmt02d(month)
        \o "0100_" \o ToString(year) \o Fmt02d(month)
        \o ToString(LastDayOfMonth(year, month)) \o "23.nc"

\* C13: the monthly file of every single-level unit processed is named with
\* the short name and the grid kind (uv or sc) that var_map of build_rda_url
\* gives the unit's parameter code.
C13_MonthlyNameFollowsVarMap ==
    (archive = "RDA" /\ pc = "sl_loop" /\ idx > 0) =>
        log[Len(log)].path
            = SinglePath(VarMapMonthlyName(args.year, args.month,
                                           SingleUnits(variables)[idx]))

\* how many of the units a..b of the run ended with the outcome
OutcomeCount(outcome, a, b) == Cardinality({i \in a..b : log[i].outcome = outcome})

\* C14: in a loop of an RDA batch the three counters add up to the number of
\* units processed so far, and each counts the units of the batch that ended
\* with its outcome, so every unit adds one to exactly one counter; the triple
\* a batch returns adds up to the number of units it enumerated; the totals
\* main prints are the sums of the two triples, component by component, and
\* count the units of the whole run by outcome.
C14_CountersConserved ==
    (archive = "RDA" /\ pc \notin {"main", "fetch", "fetched", "locate", "located"}
        /\ exit_at \notin ConfigExits) =>
        LET n == Len(log) IN
        /\ pc \in {"pl_loop", "sl_loop"} =>
              /\ success_count + skip_count + fail_count = idx
              /\ success_count = OutcomeCount("downloaded", n - idx + 1, n)
              /\ skip_count = OutcomeCount("skipped", n - idx + 1, n)
              /\ fail_count = OutcomeCount("failed", n - idx + 1, n)
        /\ pc \in {"sl_call", "sl_loop", "summary", "exit"} =>
              pl_stats[1] + pl_stats[2] + pl_stats[3] = AskedPressureCount
        /\ pc \in {"summary", "exit"} =>
              /\ sl_stats[1] + sl_stats[2] + sl_stats[3] = AskedSingleCount
              /\ Totals(pl_stats, sl_stats)
                    = <<OutcomeCount("downloaded", 1, n), OutcomeCount("skipped", 1, n),
                        OutcomeCount("failed", 1, n)>>
              /\ Totals(pl_stats, sl_stats)[1] + Totals(pl_stats, sl_stats)[2]
                    + Totals(pl_stats, sl_stats)[3] = n

\* a finished run of both batches whose totals are all positive
C14_Witness ==
    /\ archive = "RDA" /\ pc = "exit" /\ exit_at = "end"
    /\ ~args.skip_pressure /\ ~args.skip_single
    /\ pl_stats[1] + pl_stats[2] + pl_stats[3] > 0
    /\ sl_stats[1] + sl_stats[2] + sl_stats[3] > 0
    /\ Totals(pl_stats, sl_stats)[1] > 0
    /\ Totals(pl_stats, sl_stats)[2] > 0
    /\ Totals(pl_stats, sl_stats)[3] > 0

====
